---- MODULE Spec2Model ----
(***************************************************************************)
(* A model of NetStatWiz (src/NetStatWiz/NetStatWiz.py): the connection    *)
(* parser and filter, the cached and rate-limited geolocation lookup, the  *)
(* port/service and country aggregation, and the two report emitters.      *)
(*                                                                         *)
(* Representation.  A text is modelled by the pieces the code itself cuts  *)
(* it into: an IP string is the sequence of its dot-separated parts (what  *)
(* ip.split('.') returns), each part a string; a netstat line is the       *)
(* sequence of its whitespace-separated tokens.  int() is the table IntOf: *)
(* a part outside its domain makes int() raise ValueError.                 *)
(***************************************************************************)
EXTENDS Integers, Sequences, FiniteSets, TLC

\* ------------------------------------------------------------------ bounds
\* Longest netstat output (in lines) the model draws.
MaxLines == 3
\* How many times a client calls analyze_connections on one instance.
MaxRuns == 2
\* Longest part sequence drawn for the malformed inputs of is_private_ip.
MaxParts == 5

\* ------------------------------------------------------------ Python values
\* Python's None, as the return value of get_ip_location.
None == [none |-> TRUE]

\* int(s) for the strings of the model; any other string raises ValueError.
IntOf ==
  ("0" :> 0) @@ ("1" :> 1) @@ ("5" :> 5) @@ ("8" :> 8) @@ ("9" :> 9) @@
  ("10" :> 10) @@ ("11" :> 11) @@ ("15" :> 15) @@ ("16" :> 16) @@
  ("31" :> 31) @@ ("32" :> 32) @@ ("34" :> 34) @@ ("80" :> 80) @@
  ("93" :> 93) @@ ("126" :> 126) @@ ("127" :> 127) @@ ("128" :> 128) @@
  ("167" :> 167) @@ ("168" :> 168) @@ ("169" :> 169) @@ ("171" :> 171) @@
  ("172" :> 172) @@ ("173" :> 173) @@ ("184" :> 184) @@ ("191" :> 191) @@
  ("192" :> 192) @@ ("193" :> 193) @@ ("216" :> 216) @@ ("255" :> 255) @@
  ("256" :> 256) @@ ("443" :> 443) @@ ("12345" :> 12345) @@
  ("51000" :> 51000) @@ ("51001" :> 51001)

\* Whether int(s) returns (TRUE) or raises ValueError (FALSE).
IsIntStr(s) == s \in DOMAIN IntOf

\* dict.get(key, default) on a dict modelled as a function.
Get(d, key, default) == IF key \in DOMAIN d THEN d[key] ELSE default

\* ---------------------------------------------------------- PORT_SERVICES
PORT_SERVICES ==
  (20 :> "FTP Data") @@ (21 :> "FTP") @@ (22 :> "SSH") @@ (23 :> "Telnet") @@
  (25 :> "SMTP") @@ (53 :> "DNS") @@ (80 :> "HTTP") @@ (110 :> "POP3") @@
  (143 :> "IMAP") @@ (443 :> "HTTPS") @@ (445 :> "SMB") @@ (3306 :> "MySQL") @@
  (3389 :> "RDP") @@ (5432 :> "PostgreSQL") @@ (8080 :> "HTTP-Proxy") @@
  (8443 :> "HTTPS-Alt") @@ (27017 :> "MongoDB") @@ (6379 :> "Redis") @@
  (9200 :> "Elasticsearch") @@ (27015 :> "Steam")

get_service_name(port) == Get(PORT_SERVICES, port, "Unknown")

\* A slip in the second range: the upper limit of 172.16.0.0/12 taken as 32.
InPrivateRange_Wide(first, second) ==
  \/ first = 10
  \/ first = 172 /\ 16 <= second /\ second <= 32
  \/ first = 192 /\ second = 168
  \/ first = 127

\* ------------------------------------------------------------ is_private_ip
\* The four range tests of lines 116-123 on the first two parts as integers.
InPrivateRange(first, second) ==
  \/ first = 10
  \/ first = 172 /\ 16 <= second /\ second <= 31
  \/ first = 192 /\ second = 168
  \/ first = 127

\* is_private_ip(ip), ip given as ip.split('.').  The bare except turns the
\* ValueError of int(parts[0]) or int(parts[1]) into False; parts[2] and
\* parts[3] are never read.
is_private_ip(parts) ==
  IF Len(parts) # 4 THEN FALSE
  ELSE IF ~IsIntStr(parts[1]) \/ ~IsIntStr(parts[2]) THEN FALSE
  ELSE InPrivateRange(IntOf[parts[1]], IntOf[parts[2]])

\* --------------------------------------------------------- netstat lines
\* Tokens of a line: a run of word characters (\w+), an address d.d.d.d:port
\* (digits only), or anything else (an IPv6 address, "*:*", ...).
Word(s) == [k |-> "word", w |-> s, ip |-> <<>>, port |-> ""]
Addr(a, p) == [k |-> "addr", w |-> "", ip |-> a, port |-> p]
Other == [k |-> "other", w |-> "", ip |-> <<>>, port |-> ""]

\* The text the trailing group (\w+) captures at the start of a token, ""
\* when the token does not start with a word character.
WordPrefix(tok) ==
  CASE tok.k = "word" -> tok.w
    [] tok.k = "addr" -> tok.ip[1]
    [] OTHER -> ""

\* pattern.match(line): the line starts with TCP or UDP, two addresses and a
\* token starting with a word character; what follows is not looked at.
Matches(line) ==
  /\ Len(line) >= 4
  /\ line[1].k = "word" /\ line[1].w \in {"TCP", "UDP"}
  /\ line[2].k = "addr"
  /\ line[3].k = "addr"
  /\ WordPrefix(line[4]) # ""

\* The remote addresses the parser drops by name (line 92).
SkippedRemotes == {<<"0", "0", "0", "0">>, <<"127", "0", "0", "1">>, <<"::">>, <<"::1">>}

\* A parser that does no filtering: every matched line yields a record.
KeepsRemote_All(remote_ip) == TRUE

\* Whether a matched line's remote address passes lines 92-94.
KeepsRemote(remote_ip) ==
  remote_ip \notin SkippedRemotes /\ ~is_private_ip(remote_ip)

\* The dict appended at lines 95-102 for a matched line.
ConnectionOf(line) ==
  [protocol |-> line[1].w,
   local_ip |-> line[2].ip, local_port |-> IntOf[line[2].port],
   remote_ip |-> line[3].ip, remote_port |-> IntOf[line[3].port],
   state |-> WordPrefix(line[4])]

\* parse_netstat_output(lines): the loop of lines 86-104.
RECURSIVE parse_netstat_output(_)
parse_netstat_output(lines) ==
  IF lines = <<>> THEN <<>>
  ELSE LET line == lines[Len(lines)]
           before == parse_netstat_output(SubSeq(lines, 1, Len(lines) - 1))
       IN IF Matches(line) /\ KeepsRemote(line[3].ip)
          THEN Append(before, ConnectionOf(line))
          ELSE before

\* The lines a netstat output of the model is made of.
LineListening ==
  <<Word("TCP"), Addr(<<"0", "0", "0", "0">>, "80"),
    Addr(<<"0", "0", "0", "0">>, "0"), Word("LISTENING")>>
LineHttps ==
  <<Word("TCP"), Addr(<<"10", "0", "0", "5">>, "51000"),
    Addr(<<"93", "184", "216", "34">>, "443"), Word("ESTABLISHED")>>
LineGarbage == <<Word("garbage"), Word("line")>>
LineOtherPort ==
  <<Word("UDP"), Addr(<<"10", "0", "0", "5">>, "51001"),
    Addr(<<"8", "8", "8", "8">>, "12345"), Word("TIME_WAIT")>>
LinePrivate ==
  <<Word("TCP"), Addr(<<"10", "0", "0", "5">>, "51001"),
    Addr(<<"192", "168", "1", "1">>, "443"), Word("ESTABLISHED")>>
LineWildcard ==
  <<Word("UDP"), Addr(<<"0", "0", "0", "0">>, "5"), Other>>

Lines == {LineListening, LineHttps, LineGarbage, LineOtherPort, LinePrivate, LineWildcard}

\* Every sequence over S of length at most n.
SeqsUpTo(S, n) == UNION {[1..k -> S] : k \in 0..n}

\* What run_netstat can return: any text of at most MaxLines lines; the empty
\* one is also what it returns when netstat fails or times out (lines 67-72).
NetstatOutputs == SeqsUpTo(Lines, MaxLines)

\* What parse_netstat_output returns over all of these outputs.
ParsedOutputs == {parse_netstat_output(out) : out \in NetstatOutputs}

\* ------------------------------------------------------ geolocation provider
\* The empty dict.
EmptyDict == [key \in {} |-> None]

\* dict[key] = value.
Put(d, key, value) ==
  [x \in DOMAIN d \cup {key} |-> IF x = key THEN value ELSE d[x]]

\* JSON objects the provider can answer with.
JsonFull ==
  [status |-> "success", country |-> "United States", regionName |-> "California",
   city |-> "Mountain View", lat |-> 37, lon |-> -122,
   isp |-> "Google LLC", org |-> "Google Public DNS"]
JsonBare == [status |-> "success"]
JsonFail == [status |-> "fail", message |-> "invalid query"]
JsonNoStatus == [message |-> "rate limited"]

\* What urlopen + json.loads can produce for one request: a JSON object, a JSON
\* value that is no object, text that is no JSON, an HTTP error status, or a
\* transport error or timeout.
Responses ==
  {[kind |-> "json_object", data |-> d] : d \in {JsonFull, JsonBare, JsonFail, JsonNoStatus}}
  \cup {[kind |-> k, data |-> JsonNoStatus] :
          k \in {"json_other", "bad_json", "http_error", "url_error", "timeout"}}

\* The dict built at lines 142-151.
LocationOf(ip, data) ==
  [ip |-> ip,
   country |-> Get(data, "country", "Unknown"),
   region |-> Get(data, "regionName", "Unknown"),
   city |-> Get(data, "city", "Unknown"),
   latitude |-> Get(data, "lat", 0),
   longitude |-> Get(data, "lon", 0),
   isp |-> Get(data, "isp", "Unknown"),
   org |-> Get(data, "org", "Unknown")]

\* Whether line 141 takes the success branch.
IsSuccess(resp) ==
  /\ resp.kind = "json_object"
  /\ "status" \in DOMAIN resp.data
  /\ resp.data["status"] = "success"

\* A success that rebinds the cache to a new dict holding only the new entry.
HandleResponse_Replaces(cache, ip, resp) ==
  IF IsSuccess(resp)
  THEN [ret |-> LocationOf(ip, resp.data),
        cache |-> Put(EmptyDict, ip, LocationOf(ip, resp.data)),
        raised |-> FALSE]
  ELSE [ret |-> None, cache |-> cache, raised |-> FALSE]

\* Negative caching: a failed lookup stores an all-default entry.
HandleResponse_CacheFailures(cache, ip, resp) ==
  IF IsSuccess(resp)
  THEN [ret |-> LocationOf(ip, resp.data),
        cache |-> Put(cache, ip, LocationOf(ip, resp.data)),
        raised |-> FALSE]
  ELSE [ret |-> None, cache |-> Put(cache, ip, LocationOf(ip, EmptyDict)),
        raised |-> FALSE]

\* Lines 138-162 once the request has been answered: the value returned, the
\* cache afterwards, and whether an exception leaves get_ip_location.  An
\* HTTPError is caught at line 157; a transport error, a timeout, a
\* JSONDecodeError and the AttributeError of data.get on a JSON value that is
\* no object are caught at line 160: nothing is raised.
HandleResponse(cache, ip, resp) ==
  IF IsSuccess(resp)
  THEN [ret |-> LocationOf(ip, resp.data),
        cache |-> Put(cache, ip, LocationOf(ip, resp.data)),
        raised |-> FALSE]
  ELSE [ret |-> None, cache |-> cache, raised |-> FALSE]

\* The cache is never consulted: every call goes to the network.
CacheHit_Never(cache, ip) == FALSE

\* Line 130: whether get_ip_location answers from the cache.
CacheHit(cache, ip) == ip \in DOMAIN cache

\* ------------------------------------------------------------- aggregation
\* The set built at line 178.
RemoteIps(conns) == {conns[i].remote_ip : i \in 1..Len(conns)}

\* The entry appended at lines 189-194 for one connection.
PortEntry(conn) ==
  [ip |-> conn.remote_ip, service |-> get_service_name(conn.remote_port),
   protocol |-> conn.protocol, state |-> conn.state]

\* The loop of lines 186-194, appending to the port_services it finds.
RECURSIVE OrganizeByPort(_, _)
OrganizeByPort(services, conns) ==
  IF conns = <<>> THEN services
  ELSE LET conn == Head(conns)
           port == conn.remote_port
       IN OrganizeByPort(
            Put(services, port, Append(Get(services, port, <<>>), PortEntry(conn))),
            Tail(conns))

\* A summary that files only the connections that have a cached location.
CountryKey_Cached(cache, conn) ==
  Get(Get(cache, conn.remote_ip, [country |-> "Unlocated"]), "country", "Unknown")

\* The country print_summary files a connection under (lines 489-490).
CountryKey(cache, conn) ==
  Get(Get(cache, conn.remote_ip, EmptyDict), "country", "Unknown")

\* The loop of lines 487-491 (country_counts is a defaultdict(int)).
RECURSIVE CountCountries(_, _, _)
CountCountries(counts, cache, conns) ==
  IF conns = <<>> THEN counts
  ELSE LET country == CountryKey(cache, Head(conns))
       IN CountCountries(Put(counts, country, Get(counts, country, 0) + 1),
                         cache, Tail(conns))

\* The three numbers of the summary (lines 476-478 and 457-459).
SummaryOf(conns, cache, services) ==
  [total_connections |-> Len(conns),
   unique_ips |-> Cardinality(DOMAIN cache),
   unique_ports |-> Cardinality(DOMAIN services)]

\* The test of line 233: a location gets a marker.
HasMarker(location) == location.latitude # 0 /\ location.longitude # 0

\* ------------------------------------------------------------------- state
VARIABLES
  pc,               \* where the client and the running method are
  FOLIUM_AVAILABLE, \* whether the import of line 19 succeeded
  runs,             \* calls of analyze_connections so far
  connections,      \* self.connections
  ip_locations,     \* self.ip_locations, the cache
  port_services,    \* self.port_services
  netstat_output,   \* the lines given to parse_netstat_output on its own
  unique_ips,       \* the IPs the loop of line 181 has still to visit
  cur_ip,           \* the argument of the get_ip_location call under way
  ret,              \* what that call returned
  response,         \* how it was answered: not yet, from the cache, or by the provider
  slept,            \* the call has done its time.sleep
  requested,        \* the call has issued its request
  inflight,         \* requests issued and not yet answered
  requests,         \* requests issued during the current analyze_connections
  delays,           \* time.sleep calls during the current analyze_connections
  cached_at_start,  \* the cached IPs when the current analyze_connections began
  lookups,          \* per IP, the get_ip_location calls of the current analyze_connections
  cache_before,     \* the cache when the call under way began
  resolved,         \* per IP, the LocationInfo of its first successful lookup
  country_counts,   \* print_summary's country_counts
  summary,          \* the three numbers print_summary printed
  map_file,         \* what is at network_map.html
  markers_added,    \* generate_map's markers_added
  tables_file,      \* what is at network_tables.html
  tables_summary,   \* the three numbers generate_tables wrote
  ip_arg,           \* is_private_ip's argument, as ip.split('.')
  priv_done,        \* is_private_ip has returned
  priv_result       \* what it returned

vars ==
  <<pc, FOLIUM_AVAILABLE, runs, connections, ip_locations, port_services,
    netstat_output, unique_ips, cur_ip, ret, response, slept, requested,
    inflight, requests, delays, cached_at_start, lookups, cache_before, resolved,
    country_counts, summary, map_file, markers_added, tables_file,
    tables_summary, ip_arg, priv_done, priv_result>>

\* The variables of one get_ip_location call.
callVars == <<cur_ip, ret, response, slept, requested, cache_before>>
\* What print_summary and the emitters write.
reportVars ==
  <<country_counts, summary, map_file, markers_added, tables_file, tables_summary>>
\* The argument and the result of is_private_ip on its own.
privVars == <<ip_arg, priv_done, priv_result>>

NoResponse == [kind |-> "none", data |-> JsonNoStatus]
FromCache == [kind |-> "cache", data |-> JsonNoStatus]
NoSummary == [total_connections |-> -1, unique_ips |-> -1, unique_ports |-> -1]

\* NetStatWiz() (lines 47-50) in a directory without the two output files.
InitInstance ==
  /\ runs = 0
  /\ connections = <<>>
  /\ ip_locations = EmptyDict
  /\ port_services = EmptyDict
  /\ unique_ips = {}
  /\ cur_ip = <<>>
  /\ ret = None
  /\ response = NoResponse
  /\ slept = FALSE
  /\ requested = FALSE
  /\ inflight = 0
  /\ requests = 0
  /\ delays = 0
  /\ cached_at_start = {}
  /\ lookups = EmptyDict
  /\ cache_before = EmptyDict
  /\ resolved = EmptyDict
  /\ country_counts = EmptyDict
  /\ summary = NoSummary
  /\ map_file = "absent"
  /\ markers_added = 0
  /\ tables_file = "absent"
  /\ tables_summary = NoSummary

Init ==
  /\ pc = "idle"
  /\ FOLIUM_AVAILABLE \in BOOLEAN
  /\ InitInstance
  /\ netstat_output = <<>>
  /\ ip_arg = <<>>
  /\ priv_done = FALSE
  /\ priv_result = FALSE

\* ------------------------------------------------------ analyze_connections
\* Lines 166-179: run netstat, parse, and either return (no connection) or
\* enter the lookup loop over the set of remote IPs.  netstat_output is a
\* local of the method: nothing of it but the parsed connections is kept.
analyze_connections_begin ==
  /\ pc = "idle"
  /\ runs < MaxRuns
  /\ connections' \in ParsedOutputs
  /\ runs' = runs + 1
  /\ requests' = 0
  /\ delays' = 0
  /\ cached_at_start' = DOMAIN ip_locations
  /\ lookups' = EmptyDict
  /\ IF connections' = <<>>
     THEN pc' = "idle" /\ unique_ips' = {}
     ELSE pc' = "loop" /\ unique_ips' = RemoteIps(connections')
  /\ UNCHANGED <<FOLIUM_AVAILABLE, ip_locations, port_services, netstat_output,
                 inflight, resolved>>
  /\ UNCHANGED <<callVars, reportVars, privVars>>

\* Lines 181-183 and 130-131: the loop takes the next IP of the set (a set
\* has no fixed order) and calls get_ip_location, which returns at once when
\* the IP is cached and goes on to its delay otherwise.
get_ip_location_call ==
  /\ pc = "loop"
  /\ \E ip \in unique_ips :
       /\ unique_ips' = unique_ips \ {ip}
       /\ cur_ip' = ip
       /\ cache_before' = ip_locations
       /\ lookups' = Put(lookups, ip, Get(lookups, ip, 0) + 1)
       /\ IF CacheHit(ip_locations, ip)
          THEN /\ ret' = ip_locations[ip]
               /\ response' = FromCache
               /\ pc' = "returned"
          ELSE /\ ret' = None
               /\ response' = NoResponse
               /\ pc' = "sleep"
  /\ slept' = FALSE
  /\ requested' = FALSE
  /\ UNCHANGED <<FOLIUM_AVAILABLE, runs, connections, ip_locations, port_services,
                 netstat_output, inflight, requests, delays, cached_at_start, resolved>>
  /\ UNCHANGED <<reportVars, privVars>>

\* The call goes to the network without its delay.
get_ip_location_nosleep ==
  /\ pc = "sleep"
  /\ pc' = "request"
  /\ UNCHANGED <<FOLIUM_AVAILABLE, runs, connections, ip_locations, port_services,
                 netstat_output, unique_ips, cur_ip, ret, response, requested, slept,
                 delays, inflight, requests, cached_at_start, lookups, cache_before, resolved>>
  /\ UNCHANGED <<reportVars, privVars>>

\* Line 134: time.sleep(1.5).
get_ip_location_sleep ==
  /\ pc = "sleep"
  /\ slept' = TRUE
  /\ delays' = delays + 1
  /\ pc' = "request"
  /\ UNCHANGED <<FOLIUM_AVAILABLE, runs, connections, ip_locations, port_services,
                 netstat_output, unique_ips, cur_ip, ret, response, requested,
                 inflight, requests, cached_at_start, lookups, cache_before, resolved>>
  /\ UNCHANGED <<reportVars, privVars>>

\* Lines 137-138: urlopen sends the GET and blocks.
get_ip_location_request ==
  /\ pc = "request"
  /\ requested' = TRUE
  /\ requests' = requests + 1
  /\ inflight' = inflight + 1
  /\ pc' = "await"
  /\ UNCHANGED <<FOLIUM_AVAILABLE, runs, connections, ip_locations, port_services,
                 netstat_output, unique_ips, cur_ip, ret, response, slept, delays,
                 cached_at_start, lookups, cache_before, resolved>>
  /\ UNCHANGED <<reportVars, privVars>>

\* Lines 138-162: the request is answered (or fails) and the call returns.
get_ip_location_response ==
  /\ pc = "await"
  /\ \E resp \in Responses :
       LET r == HandleResponse(ip_locations, cur_ip, resp)
       IN /\ response' = resp
          /\ ret' = r.ret
          /\ ip_locations' = r.cache
          /\ resolved' = IF r.ret # None /\ cur_ip \notin DOMAIN resolved
                         THEN Put(resolved, cur_ip, r.ret)
                         ELSE resolved
          /\ pc' = IF r.raised THEN "raised" ELSE "returned"
  /\ inflight' = inflight - 1
  /\ UNCHANGED <<FOLIUM_AVAILABLE, runs, connections, port_services, netstat_output,
                 unique_ips, cur_ip, slept, requested, requests, delays,
                 cached_at_start, lookups, cache_before>>
  /\ UNCHANGED <<reportVars, privVars>>

\* Line 183: the value returned is dropped and the loop goes on.
get_ip_location_return ==
  /\ pc = "returned"
  /\ pc' = "loop"
  /\ cur_ip' = <<>>
  /\ ret' = None
  /\ response' = NoResponse
  /\ slept' = FALSE
  /\ requested' = FALSE
  /\ cache_before' = EmptyDict
  /\ UNCHANGED <<FOLIUM_AVAILABLE, runs, connections, ip_locations, port_services,
                 netstat_output, unique_ips, inflight, requests, delays,
                 cached_at_start, lookups, resolved>>
  /\ UNCHANGED <<reportVars, privVars>>

\* Lines 185-194: the loop is over; organize by port and return.
analyze_connections_organize ==
  /\ pc = "loop"
  /\ unique_ips = {}
  /\ port_services' = OrganizeByPort(port_services, connections)
  /\ pc' = "idle"
  /\ UNCHANGED <<FOLIUM_AVAILABLE, runs, connections, ip_locations, netstat_output,
                 unique_ips, inflight, requests, delays, cached_at_start, lookups,
                 resolved>>
  /\ UNCHANGED <<callVars, reportVars, privVars>>

\* --------------------------------------------------------- main's reports
\* The variables the reports leave alone.
instanceVars ==
  <<FOLIUM_AVAILABLE, runs, connections, ip_locations, port_services,
    netstat_output, unique_ips, inflight, requests, delays, cached_at_start,
    lookups, resolved>>

\* Lines 506-507 and 471-494: connections were found, print the summary.
print_summary ==
  /\ pc = "idle"
  /\ runs >= 1
  /\ connections # <<>>
  /\ summary' = SummaryOf(connections, ip_locations, port_services)
  /\ country_counts' = CountCountries(EmptyDict, ip_locations, connections)
  /\ pc' = "map"
  /\ UNCHANGED <<map_file, markers_added, tables_file, tables_summary>>
  /\ UNCHANGED <<instanceVars, callVars, privVars>>

\* Lines 521-522: no connections, nothing is generated.
main_no_connections ==
  /\ pc = "idle"
  /\ runs >= 1
  /\ connections = <<>>
  /\ pc' = "nothing_to_do"
  /\ UNCHANGED <<instanceVars, callVars, reportVars, privVars>>

\* What folium's m.save can do: write the file, raise, or return having
\* written nothing.  What open(..., 'w') plus write can do: succeed or raise.
SaveOutcomes == {"saved", "raises", "nothing"}

\* generate_map (lines 196-330).  Without folium it returns at line 202; with
\* an empty cache it tries an empty map and writes nothing else (205-219);
\* otherwise it saves the map, and writes an HTML placeholder when the file is
\* missing afterwards (278-303) or when anything raised (305-330).
generate_map ==
  /\ pc = "map"
  /\ \E save \in SaveOutcomes, fallback_ok \in BOOLEAN :
       IF ~FOLIUM_AVAILABLE
       THEN UNCHANGED <<map_file, markers_added>>
       ELSE IF DOMAIN ip_locations = {}
       THEN /\ map_file' = IF save = "saved" THEN "map" ELSE map_file
            /\ UNCHANGED markers_added
       ELSE /\ markers_added' =
                 Cardinality({ip \in DOMAIN ip_locations : HasMarker(ip_locations[ip])})
            /\ map_file' = IF save = "saved" THEN "map"
                           ELSE IF fallback_ok THEN "placeholder"
                           ELSE map_file
  /\ pc' = "tables"
  /\ UNCHANGED <<country_counts, summary, tables_file, tables_summary>>
  /\ UNCHANGED <<instanceVars, callVars, privVars>>

\* generate_tables (lines 332-469).  The content is built from connections,
\* the cache and port_services; open or write raising is caught nowhere, in
\* generate_tables or in main, so it ends the process with a traceback.
generate_tables ==
  /\ pc = "tables"
  /\ \E write_ok \in BOOLEAN :
       IF write_ok
       THEN /\ tables_file' = "report"
            /\ tables_summary' = SummaryOf(connections, ip_locations, port_services)
            /\ pc' = "done"
       ELSE /\ UNCHANGED <<tables_file, tables_summary>>
            /\ pc' = "crashed"
  /\ UNCHANGED <<country_counts, summary, map_file, markers_added>>
  /\ UNCHANGED <<instanceVars, callVars, privVars>>

Next ==
  \/ analyze_connections_begin
  \/ get_ip_location_call
  \/ get_ip_location_sleep
  \/ get_ip_location_request
  \/ get_ip_location_response
  \/ get_ip_location_return
  \/ analyze_connections_organize
  \/ print_summary
  \/ main_no_connections
  \/ generate_map
  \/ generate_tables

Spec == Init /\ [][Next]_vars

\* ------------------------------------------------- is_private_ip on its own
\* The parts the addresses given to it are made of: integers around every limit
\* of the four ranges, an out-of-range octet, and two parts that are no integer.
OctetParts ==
  {"0", "9", "10", "11", "15", "16", "31", "32", "126", "127", "128", "167",
   "168", "169", "171", "172", "173", "191", "192", "193", "255", "256", "x", ""}

\* The third and fourth parts drawn: in range, out of range, and no integer.
TailParts == {"0", "255", "256", "x"}

\* Inputs of is_private_ip: the four-part strings with OctetParts in the first
\* two places and TailParts in the last two, the strings of any other number
\* of parts (up to MaxParts) over a few parts, and the two IPv6 literals.
PrivInputs ==
  {<<a, b, c, d>> : a \in OctetParts, b \in OctetParts, c \in TailParts, d \in TailParts}
  \cup {p \in SeqsUpTo({"10", "168", "x"}, MaxParts) : Len(p) # 4}
  \cup {<<"::">>, <<"::1">>}

InitPriv ==
  /\ pc = "private"
  /\ FOLIUM_AVAILABLE = TRUE
  /\ InitInstance
  /\ netstat_output = <<>>
  /\ ip_arg \in PrivInputs
  /\ priv_done = FALSE
  /\ priv_result = FALSE

\* One call of is_private_ip (lines 106-126).
is_private_ip_call ==
  /\ pc = "private"
  /\ ~priv_done
  /\ priv_done' = TRUE
  /\ priv_result' = is_private_ip(ip_arg)
  /\ UNCHANGED <<pc, ip_arg, country_counts, summary, map_file, markers_added,
                 tables_file, tables_summary>>
  /\ UNCHANGED <<instanceVars, callVars>>

NextPriv == is_private_ip_call

SpecPriv == InitPriv /\ [][NextPriv]_vars

\* ------------------------------------- parser and aggregator on their own
\* A fresh instance and one netstat output to parse.
InitParse ==
  /\ pc = "parse"
  /\ FOLIUM_AVAILABLE = TRUE
  /\ InitInstance
  /\ netstat_output \in NetstatOutputs
  /\ ip_arg = <<>>
  /\ priv_done = FALSE
  /\ priv_result = FALSE

\* Line 170: self.connections = self.parse_netstat_output(netstat_output).
parse_netstat_output_call ==
  /\ pc = "parse"
  /\ connections' = parse_netstat_output(netstat_output)
  /\ pc' = "organize"
  /\ UNCHANGED <<FOLIUM_AVAILABLE, runs, ip_locations, port_services, netstat_output,
                 unique_ips, inflight, requests, delays, cached_at_start, lookups,
                 resolved>>
  /\ UNCHANGED <<callVars, reportVars, privVars>>

\* Lines 185-194 on the parsed connections.
organize_call ==
  /\ pc = "organize"
  /\ port_services' = OrganizeByPort(port_services, connections)
  /\ pc' = "organized"
  /\ UNCHANGED <<FOLIUM_AVAILABLE, runs, connections, ip_locations, netstat_output,
                 unique_ips, inflight, requests, delays, cached_at_start, lookups,
                 resolved>>
  /\ UNCHANGED <<callVars, reportVars, privVars>>

NextParse ==
  \/ parse_netstat_output_call
  \/ organize_call

SpecParse == InitParse /\ [][NextParse]_vars

\* ================================================================== claims

\* C1: cache idempotence of get_ip_location.  Once an IP has been resolved
\* successfully, a later call for it never reaches the delay or the network
\* (so the IP costs exactly one request from its successful lookup on), it
\* returns at once having neither slept nor requested, and it returns the
\* very LocationInfo the first successful call stored.
C1_CacheIdempotence ==
  /\ pc \in {"sleep", "request", "await"} => cur_ip \notin DOMAIN resolved
  /\ (pc = "returned" /\ cur_ip \in DOMAIN resolved) => ret = resolved[cur_ip]
  /\ (pc = "returned" /\ cur_ip \in DOMAIN cache_before) =>
       /\ cur_ip \in DOMAIN resolved
       /\ ~slept /\ ~requested
       /\ ip_locations = cache_before

\* A second call for an IP that an earlier analyze_connections resolved.
C1_Witness ==
  /\ pc = "returned"
  /\ runs = 2
  /\ cur_ip \in cached_at_start
  /\ ret = resolved[cur_ip]

\* What the claims call a failed lookup: an HTTP error, a transport error, a
\* timeout, text that is no JSON, JSON that is no object, or an object whose
\* status is not "success".
FailedLookup(resp) ==
  \/ resp.kind \in {"http_error", "url_error", "timeout", "bad_json", "json_other"}
  \/ resp.kind = "json_object" /\ Get(resp.data, "status", "") # "success"

\* C2: a failed lookup returns None without raising and leaves the cache as
\* it was, the IP still absent; no state of the pipeline has an exception
\* leaving get_ip_location, and after the failed call the loop goes on.
C2_FailedLookupNotCached ==
  /\ pc # "raised"
  /\ (pc = "returned" /\ FailedLookup(response)) =>
       /\ ret = None
       /\ ip_locations = cache_before
       /\ cur_ip \notin DOMAIN ip_locations
       /\ ENABLED get_ip_location_return

\* A lookup answered by JSON that is no object has returned, with IPs left.
C2_Witness ==
  /\ pc = "returned"
  /\ response.kind = "json_other"
  /\ unique_ips # {}

\* generate_map has returned.
MapReturned == pc \in {"tables", "done", "crashed"}

\* C3: when generate_map has returned there is an HTML file at the output
\* path: a map (possibly without markers) or the textual fallback.
C3_MapFileAlwaysWritten ==
  MapReturned => map_file \in {"map", "placeholder"}

\* C4: an emitter that cannot produce its primary artifact writes a placeholder
\* at the same path and returns: main never ends with an unhandled exception,
\* and once both emitters are through both output paths hold a file.
C4_EmittersFallBack ==
  /\ pc # "crashed"
  /\ pc = "done" =>
       /\ map_file \in {"map", "placeholder"}
       /\ tables_file \in {"report", "placeholder"}

\* The remote ports of the connections.
RemotePorts(conns) == {conns[i].remote_port : i \in 1..Len(conns)}

\* The three numbers the claim expects of a summary block.
ExpectedSummary ==
  [total_connections |-> Len(connections),
   unique_ips |-> Cardinality(RemoteIps(connections)),
   unique_ports |-> Cardinality(RemotePorts(connections))]

\* C5: the console summary and the summary block of the tables report the
\* number of connections, of distinct remote IPs and of distinct remote ports
\* of self.connections, whether or not every lookup succeeded.
C5_SummaryCountsConnections ==
  /\ summary # NoSummary => summary = ExpectedSummary
  /\ tables_summary # NoSummary => tables_summary = ExpectedSummary

\* The 16 leading bits of a well-formed address, as a number.
Top16(parts) == IntOf[parts[1]] * 256 + IntOf[parts[2]]

\* 2 to the power n.
RECURSIVE Pow2(_)
Pow2(n) == IF n = 0 THEN 1 ELSE 2 * Pow2(n - 1)

\* Whether the address lies in the block a.b.0.0/prefix (prefix at most 16).
InBlock(parts, a, b, prefix) ==
  Top16(parts) \div Pow2(16 - prefix) = (a * 256 + b) \div Pow2(16 - prefix)

\* A dotted quad: four parts, each an integer from 0 to 255.
WellFormedIPv4(parts) ==
  /\ Len(parts) = 4
  /\ \A i \in 1..4 : IsIntStr(parts[i]) /\ IntOf[parts[i]] \in 0..255

\* Membership in 10.0.0.0/8, 172.16.0.0/12, 192.168.0.0/16 or 127.0.0.0/8.
InPrivateBlocks(parts) ==
  \/ InBlock(parts, 10, 0, 8)
  \/ InBlock(parts, 172, 16, 12)
  \/ InBlock(parts, 192, 168, 16)
  \/ InBlock(parts, 127, 0, 8)

\* Four parts, each an integer: the widest reading of "parses as a 4-octet
\* dotted quad" (an octet above 255 still counts as parsed).
ParsesAsQuad(parts) ==
  Len(parts) = 4 /\ \A i \in 1..4 : IsIntStr(parts[i])

\* C6 as stated: is_private_ip is true exactly on the four private blocks
\* among the well-formed addresses, and false on every string that does not
\* parse as a 4-octet dotted quad.
C6_PrivateIffInBlocks_Original ==
  priv_done =>
    /\ WellFormedIPv4(ip_arg) => (priv_result <=> InPrivateBlocks(ip_arg))
    /\ ~ParsesAsQuad(ip_arg) => priv_result = FALSE

\* C6 as amended: is_private_ip is true exactly on the four private blocks
\* among the well-formed addresses; it is false on every string that has not
\* exactly four dot-separated parts or whose first or second part is no
\* integer; and on a four-part string it never looks at the last two parts,
\* so "10.0.x.y" and "10.0.0.256" are reported private.
C6_PrivateIffInBlocks ==
  priv_done =>
    /\ WellFormedIPv4(ip_arg) => (priv_result <=> InPrivateBlocks(ip_arg))
    /\ (Len(ip_arg) # 4 \/ ~IsIntStr(ip_arg[1]) \/ ~IsIntStr(ip_arg[2])) =>
         priv_result = FALSE
    /\ Len(ip_arg) = 4 =>
         (priv_result <=> is_private_ip(<<ip_arg[1], ip_arg[2], "0", "0">>))

\* is_private_ip has run on the last address of 172.16.0.0/12 and found it private.
C6_Witness ==
  /\ priv_done
  /\ ip_arg = <<"172", "31", "255", "255">>
  /\ priv_result = TRUE

\* The example of the specification: a listening socket, an established
\* connection to 93.184.216.34:443, and a line that is no connection.
ScenarioLines == <<LineListening, LineHttps, LineGarbage>>

\* The one record the example keeps.
ScenarioRecord ==
  [protocol |-> "TCP",
   local_ip |-> <<"10", "0", "0", "5">>, local_port |-> 51000,
   remote_ip |-> <<"93", "184", "216", "34">>, remote_port |-> 443,
   state |-> "ESTABLISHED"]

\* The lines of a text that match the connection-line pattern.
MatchingLines(lines) == {i \in 1..Len(lines) : Matches(lines[i])}

\* C7 as stated: on the example the Parser (parse_netstat_output) yields 2
\* records, of which the Filter keeps the second, and portServices[443] has
\* length 1 with service "HTTPS".
C7_ScenarioStages_Original ==
  (netstat_output = ScenarioLines /\ pc \in {"organize", "organized"}) =>
    /\ Len(connections) = 2
    /\ pc = "organized" =>
         /\ 443 \in DOMAIN port_services
         /\ Len(port_services[443]) = 1
         /\ port_services[443][1].service = "HTTPS"

\* C7 as amended: on the example two of the three lines match the pattern,
\* but parse_netstat_output filters while it parses and returns one record,
\* the connection to 93.184.216.34:443; port_services then has the single key
\* 443, with one entry, of service "HTTPS".  For every text, the records
\* returned are at most as many as the matching lines.
C7_ScenarioStages ==
  /\ pc \in {"organize", "organized"} =>
       Len(connections) <= Cardinality(MatchingLines(netstat_output))
  /\ (netstat_output = ScenarioLines /\ pc \in {"organize", "organized"}) =>
       /\ Cardinality(MatchingLines(netstat_output)) = 2
       /\ connections = <<ScenarioRecord>>
       /\ pc = "organized" =>
            /\ DOMAIN port_services = {443}
            /\ port_services[443] =
                 <<[ip |-> <<"93", "184", "216", "34">>, service |-> "HTTPS",
                    protocol |-> "TCP", state |-> "ESTABLISHED"]>>

\* The example has been parsed and organized.
C7_Witness ==
  /\ netstat_output = ScenarioLines
  /\ pc = "organized"
  /\ Len(connections) = 1

\* The lookup loop of the current analyze_connections is over.
LookupsOver ==
  \/ pc = "loop" /\ unique_ips = {}
  \/ pc = "idle" /\ runs >= 1 /\ connections # <<>>

\* C8: lookups are serialized and rate-limited.  At most one request is in
\* flight, and only while the call waits for it; a call that has requested
\* has slept first, and the delays of the run are the requests of the run
\* plus the one delay of a call about to request; a call that found its IP
\* cached returns having neither slept nor requested, every other call has
\* done both; and when the loop is over every remote IP of the connections
\* has been looked up exactly once and the requests of the run are as many as
\* the remote IPs that were not cached when the run began.
C8_SerializedRateLimited ==
  /\ inflight \in {0, 1}
  /\ inflight = 1 <=> pc = "await"
  /\ requested => slept
  /\ delays = requests + (IF pc = "request" THEN 1 ELSE 0)
  /\ pc = "request" => slept /\ ~requested
  /\ pc = "returned" =>
       IF cur_ip \in DOMAIN cache_before
       THEN ~slept /\ ~requested
       ELSE slept /\ requested
  /\ LookupsOver =>
       /\ DOMAIN lookups = RemoteIps(connections)
       /\ \A ip \in DOMAIN lookups : lookups[ip] = 1
       /\ requests = Cardinality(RemoteIps(connections) \ cached_at_start)

\* A run is over that found one of its two IPs cached and requested the other.
C8_Witness ==
  /\ pc = "loop" /\ unique_ips = {}
  /\ Cardinality(RemoteIps(connections)) = 2
  /\ Cardinality(RemoteIps(connections) \cap cached_at_start) = 1
  /\ requests = 1

\* The entries of the connections to one remote port, in discovery order.
EntriesOfPort(conns, port) ==
  LET ToPort(conn) == conn.remote_port = port
      kept == SelectSeq(conns, ToPort)
  IN [i \in 1..Len(kept) |-> PortEntry(kept[i])]

\* The connections grouped by remote port.
GroupedByPort(conns) ==
  [port \in RemotePorts(conns) |-> EntriesOfPort(conns, port)]

\* The sum of the lengths of the sequences of a dict.
RECURSIVE TotalEntries(_)
TotalEntries(services) ==
  IF DOMAIN services = {} THEN 0
  ELSE LET port == CHOOSE x \in DOMAIN services : TRUE
       IN Len(services[port])
          + TotalEntries([x \in DOMAIN services \ {port} |-> services[x]])

\* C9: whenever analyze_connections has returned, after any number of calls
\* on the instance, port_services is the grouping of self.connections by
\* remote port, and its entries are as many as the connections.
C9_PortServicesGroupsConnections ==
  (pc = "idle" /\ runs >= 1) =>
    /\ port_services = GroupedByPort(connections)
    /\ TotalEntries(port_services) = Len(connections)

\* The country the claim files a connection under.
CountryOfConnection(conn) ==
  IF conn.remote_ip \in DOMAIN ip_locations
  THEN ip_locations[conn.remote_ip].country
  ELSE "Unknown"

\* The connections the claim files under a country.
ConnectionsOfCountry(country) ==
  {i \in 1..Len(connections) : CountryOfConnection(connections[i]) = country}

\* The sum of the values of a dict of numbers.
RECURSIVE TotalCount(_)
TotalCount(counts) ==
  IF DOMAIN counts = {} THEN 0
  ELSE LET key == CHOOSE x \in DOMAIN counts : TRUE
       IN counts[key] + TotalCount([x \in DOMAIN counts \ {key} |-> counts[x]])

\* print_summary has run.
Summarized == pc \in {"map", "tables", "done", "crashed"}

\* C10: country_counts[c] is the number of connections whose remote IP has a
\* cached LocationInfo of country c, a connection whose remote IP is not
\* cached counting under "Unknown"; no country is listed with a count of
\* zero, and the counts sum to the number of connections.
C10_CountryCounts ==
  Summarized =>
    /\ \A country \in DOMAIN country_counts \cup {"Unknown", "United States"} :
         Get(country_counts, country, 0) = Cardinality(ConnectionsOfCountry(country))
    /\ \A country \in DOMAIN country_counts : country_counts[country] > 0
    /\ TotalCount(country_counts) = Len(connections)

\* A summary over a connection whose lookup failed and a connection located
\* in a named country.
C10_Witness ==
  /\ Summarized
  /\ \E i \in 1..Len(connections) : connections[i].remote_ip \notin DOMAIN ip_locations
  /\ Get(country_counts, "United States", 0) >= 1
  /\ Get(country_counts, "Unknown", 0) >= 1

\* C11: cached entries are write-once.  No step of the program (a lookup
\* for the same or another IP, answered or failed, the organizing by port,
\* the summary, either emitter, another analyze_connections) removes an entry
\* of ip_locations or changes its value: the cache only grows.
C11_CacheWriteOnce ==
  [][\A ip \in DOMAIN ip_locations :
       /\ ip \in DOMAIN ip_locations'
       /\ ip_locations'[ip] = ip_locations[ip]]_vars

\* With an entry cached by an earlier run, a lookup for another IP has
\* succeeded and both entries are in the cache.
C11_Witness ==
  /\ pc = "returned"
  /\ cached_at_start # {}
  /\ cur_ip \notin cached_at_start
  /\ IsSuccess(response)
  /\ cached_at_start \cup {cur_ip} \subseteq DOMAIN ip_locations

====
